---- MODULE Spec2Model ----
(***************************************************************************)
(* State-machine model of search_reverser: the adaptive query strategy     *)
(* (adaptive.py), the result analyzer (analyzers.py), the collector        *)
(* (collectors.py) and the orchestrator (search_reverser.py), together     *)
(* with the driver main() of test_search_reverser.py.                      *)
(*                                                                         *)
(* Strings.  A Python str is modelled as a sequence of lexemes: a lexeme   *)
(* is either a maximal run of alphanumeric characters (a TLA+ string such  *)
(* as "python" or "AND"), the blank SP, the double quote QT or the         *)
(* punctuation mark BANG.  No two alphanumeric lexemes are adjacent, so    *)
(* str.split(), the substring tests and str.isalnum() are computed on the  *)
(* lexemes exactly as Python computes them on the characters.              *)
(*                                                                         *)
(* Floats.  Weights and optimal_query_length are exact rationals           *)
(* [n |-> numerator, d |-> denominator] in lowest terms.                   *)
(***************************************************************************)
EXTENDS Integers, Sequences, FiniteSets, TLC

\* ------------------------------------------------------------------------
\* Bounds of the model (not program constants)
\* ------------------------------------------------------------------------
\* the entropy of the random draws of one generate_next_queries call
MaxEntropy == 3
\* number of analyze_response calls of the API harness
MaxCalls == 2
\* number of generate_next_queries calls of the API harness
MaxGen == 7
\* number of analyze_response calls of the weight harness
MaxDeep == 11
\* number of transport failures in one run while the server is reachable
MaxFail == 1
\* number of collect_sample calls of the sample-store harness
MaxCollect == 3
\* number of get_learning_status calls in a row of the status harness
MaxPolls == 2
\* number of tokens of a query the categorizer is probed with
MaxTerms == 3
\* number of samples collected by the analyzer harness
MaxProbe == 6
\* length of a result list detect_matching_algorithm is probed with
MaxList == 3

\* ------------------------------------------------------------------------
\* Strings as lexeme sequences
\* ------------------------------------------------------------------------
SP == " "
QT == "\""
BANG == "!"

Range(s) == {s[i] : i \in DOMAIN s}

Min(a, b) == IF a < b THEN a ELSE b

\* one alphanumeric lexeme: c.isalnum() holds of each of its characters
IsAlnumLexeme(p) == p \notin {SP, QT, BANG}

\* a one-word string and a two-word string
W(a) == <<a>>
W2(a, b) == <<a, SP, b>>

\* s1 + " " + s2
Cat(s1, s2) == s1 \o <<SP>> \o s2

\* str.lower() on one lexeme: the lexemes with upper-case letters that occur
LowerLexeme(p) ==
  CASE p = "AND" -> "and"
    [] p = "OR" -> "or"
    [] p = "NOT" -> "not"
    [] p = "Education" -> "education"
    [] p = "Research" -> "research"
    [] p = "Guide" -> "guide"
    [] OTHER -> p

\* str.lower()
Lower(s) == [i \in DOMAIN s |-> LowerLexeme(s[i])]

\* str.split(): the maximal runs of non-blank lexemes, in order
RECURSIVE SplitFrom(_, _, _)
SplitFrom(s, i, cur) ==
  IF i > Len(s)
  THEN IF cur = <<>> THEN <<>> ELSE <<cur>>
  ELSE IF s[i] = SP
       THEN IF cur = <<>> THEN SplitFrom(s, i + 1, <<>>)
            ELSE <<cur>> \o SplitFrom(s, i + 1, <<>>)
       ELSE SplitFrom(s, i + 1, Append(cur, s[i]))

Split(s) == SplitFrom(s, 1, <<>>)

\* set(s.split())
TermSet(s) == Range(Split(s))

\* sub in s, for a lexeme sequence sub that begins and ends with SP or QT
Contains(s, sub) ==
  \E i \in 0..(Len(s) - Len(sub)) :
    \A j \in 1..Len(sub) : s[i + j] = sub[j]

\* s.startswith(pre), for pre ending with SP
StartsWith(s, pre) ==
  /\ Len(s) >= Len(pre)
  /\ \A j \in 1..Len(pre) : s[j] = pre[j]

\* term.isalnum() for a token produced by split()
IsAlnum(tok) == tok # <<>> /\ \A i \in DOMAIN tok : IsAlnumLexeme(tok[i])

\* ------------------------------------------------------------------------
\* Rationals
\* ------------------------------------------------------------------------
RECURSIVE Gcd(_, _)
Gcd(a, b) == IF b = 0 THEN a ELSE Gcd(b, a % b)

Rat(n, d) == LET g == Gcd(n, d) IN IF n = 0 THEN [n |-> 0, d |-> 1] ELSE [n |-> n \div g, d |-> d \div g]

RatMul(x, n, d) == Rat(x.n * n, x.d * d)
\* a/b < c/d for a, c >= 0 and b, d > 0, by continued fractions: no product
\* is formed, so the comparison stays within the integers of the operands
RECURSIVE FracLess(_, _, _, _)
FracLess(a, b, c, d) ==
  IF a \div b # c \div d THEN a \div b < c \div d
  ELSE IF c % d = 0 THEN FALSE
  ELSE IF a % b = 0 THEN TRUE
  ELSE FracLess(d, c % d, b, a % b)

RatLess(x, y) == FracLess(x.n, x.d, y.n, y.d)
RatLeq(x, y) == ~RatLess(y, x)
RatMin(x, y) == IF RatLess(y, x) THEN y ELSE x
RatMax(x, y) == IF RatLess(x, y) THEN y ELSE x

One == Rat(1, 1)
\* the clamps 0.1 and 2.0 of analyze_response
WeightFloor == Rat(1, 10)
WeightCap == Rat(2, 1)

\* ------------------------------------------------------------------------
\* Static catalog (AdaptiveQueryStrategy.__init__)
\* ------------------------------------------------------------------------
\* list(self.domains.keys()), in declaration order
DomainNames ==
  <<"general_academic",
    "science",
    "mathematics",
    "general_tech",
    "programming",
    "languages",
    "web_dev",
    "data_science",
    "business",
    "marketing",
    "finance",
    "design",
    "media",
    "writing",
    "engineering",
    "healthcare",
    "manufacturing">>

\* self.domains
domains ==
  [
    general_academic |->
      <<W("education"), W("learning"), W("study"), W("course"), W("tutorial"), W("guide"), W("introduction")>>,
    science |->
      <<W("research"), W("experiment"), W("theory"), W("analysis"), W("methodology"), W("scientific")>>,
    mathematics |->
      <<W("math"), W("calculus"), W("algebra"), W("statistics"), W("probability"), W("equations")>>,
    general_tech |->
      <<W("technology"), W("digital"), W("computer"), W("software"), W("hardware"), W("system"), W("platform")>>,
    programming |->
      <<W("coding"), W("development"), W("software"), W("algorithm"), W("debugging"), W("implementation")>>,
    languages |->
      <<W("python"), W("javascript"), W("java"), W("cpp"), W("rust"), W("golang"), W("ruby"), W("php")>>,
    web_dev |->
      <<W("frontend"), W("backend"), W("fullstack"), W("web"), W("html"), W("css"), W("api"), W("rest")>>,
    data_science |->
      <<W("analytics"), W2("machine", "learning"), W2("data", "mining"), W2("big", "data"), W("visualization"), W("prediction")>>,
    business |->
      <<W("management"), W("strategy"), W("planning"), W("organization"), W("leadership"), W("innovation")>>,
    marketing |->
      <<W("advertising"), W("branding"), W("marketing"), W2("social", "media"), W("content"), W("seo")>>,
    finance |->
      <<W("investment"), W("trading"), W("economics"), W("financial"), W("accounting"), W("market")>>,
    design |->
      <<W("design"), W("creative"), W("art"), W("visual"), W("graphic"), W("typography"), W("layout")>>,
    media |->
      <<W("video"), W("audio"), W("multimedia"), W("animation"), W("production"), W("editing")>>,
    writing |->
      <<W("content"), W("documentation"), W2("technical", "writing"), W("blogging"), W("copywriting")>>,
    engineering |->
      <<W("mechanical"), W("electrical"), W("civil"), W("chemical"), W("industrial"), W("engineering")>>,
    healthcare |->
      <<W("medical"), W("health"), W("clinical"), W("patient"), W("diagnosis"), W("treatment")>>,
    manufacturing |->
      <<W("production"), W("assembly"), W("quality"), W("automation"), W("industrial"), W("process")>>
  ]

DomainSet == Range(DomainNames)

\* list(self.query_patterns.keys()), in declaration order
PatternNames ==
  <<"simple", "quoted", "and_combo", "or_combo", "beginner", "advanced",
    "learn", "with", "for", "course", "tutorial", "guide">>

PatternSet == Range(PatternNames)

\* the list an inner random.choice of a pattern draws from (<<>>: no draw)
PatternFills(p) ==
  CASE p = "and_combo" -> <<"guide", "tutorial", "introduction">>
    [] p = "or_combo" -> <<"course", "training", "learning">>
    [] p = "with" -> <<"examples", "practice", "exercises">>
    [] p = "for" -> <<"beginners", "professionals", "students">>
    [] OTHER -> <<>>

\* self.query_patterns[p](term), the inner draw having returned fill
ApplyPattern(p, term, fill) ==
  CASE p = "simple" -> term
    [] p = "quoted" -> <<QT>> \o term \o <<QT>>
    [] p = "and_combo" -> Cat(Cat(term, W("AND")), W(fill))
    [] p = "or_combo" -> Cat(Cat(term, W("OR")), W(fill))
    [] p = "beginner" -> Cat(W("beginner"), term)
    [] p = "advanced" -> Cat(W("advanced"), term)
    [] p = "learn" -> Cat(W("learn"), term)
    [] p = "with" -> Cat(Cat(term, W("with")), W(fill))
    [] p = "for" -> Cat(Cat(term, W("for")), W(fill))
    [] p = "course" -> Cat(term, W("course"))
    [] p = "tutorial" -> Cat(term, W("tutorial"))
    [] p = "guide" -> Cat(Cat(W("complete"), term), W("guide"))

\* self.max_exploration_rounds
max_exploration_rounds == 3

\* ------------------------------------------------------------------------
\* Pure helpers of the strategy
\* ------------------------------------------------------------------------
Categories == {"exact", "partial", "fuzzy", "compound", "general"}

\* the keys of the dict categories of _categorize_query, in insertion order,
\* which is the order the for loop visits them in
CompoundFirstOrder == <<"compound", "fuzzy", "exact", "partial">>

CategoryOrder == <<"exact", "partial", "fuzzy", "compound">>

\* categories[c](q)
CategoryCheck(c, q) ==
  CASE c = "exact" -> Len(Split(q)) > 2
    [] c = "partial" -> Len(Split(q)) = 1
    [] c = "fuzzy" -> \E i \in DOMAIN q : ~IsAlnumLexeme(q[i]) /\ q[i] # SP
    [] c = "compound" ->
         Contains(q, <<SP, "AND", SP>>) \/ Contains(q, <<SP, "OR", SP>>)

\* the for loop of _categorize_query from the i-th key on
RECURSIVE FirstCategory(_, _, _)
FirstCategory(order, i, q) ==
  IF i > Len(order) THEN "general"
  ELSE IF CategoryCheck(order[i], q) THEN order[i]
  ELSE FirstCategory(order, i + 1, q)

\* AdaptiveQueryStrategy._categorize_query
CategorizeQuery(q) == FirstCategory(CategoryOrder, 1, q)

\* set(term.lower() for term in terms), per domain
SeedSet == [d \in DomainSet |-> {Lower(domains[d][i]) : i \in DOMAIN domains[d]}]

\* AdaptiveQueryStrategy._identify_domain
IdentifyDomain(q) ==
  LET query_terms == TermSet(Lower(q))
      hits == {i \in DOMAIN DomainNames : query_terms \cap SeedSet[DomainNames[i]] # {}}
  IN IF hits = {} THEN "general"
     ELSE DomainNames[CHOOSE i \in hits : \A j \in hits : i <= j]

\* AdaptiveQueryStrategy._identify_query_pattern
IdentifyQueryPattern(q) ==
  LET lq == Lower(q) IN
  IF QT \in Range(lq) THEN "phrase"
  ELSE IF Contains(lq, <<SP, "and", SP>>) THEN "compound"
  ELSE IF Contains(lq, <<SP, "or", SP>>) THEN "broad"
  ELSE IF StartsWith(lq, <<"advanced", SP>>) THEN "specific"
  ELSE "simple"

\* result.get("score", 0) > 0.7, the score held in tenths
HighScore(result) == result.score > 7

\* the terms analyze_response collects from a non-empty result list
SuccessfulTerms(q, results) ==
  LET query_terms == TermSet(Lower(q)) IN
  UNION {(TermSet(Lower(results[i].title)) \cap query_terms)
           \cup (IF HighScore(results[i]) THEN query_terms ELSE {}) : i \in DOMAIN results}

\* clean_terms of analyze_response
CleanTerms(q) ==
  {t \in Range(Split(q)) : IsAlnum(t) /\ Lower(t) \notin {W("and"), W("or"), W("not")}}

\* the new weight of the identified domain
NoClampWeight(w, success) == IF success THEN RatMul(w, 6, 5) ELSE RatMul(w, 4, 5)

UpdateWeight(w, success) ==
  IF success THEN RatMin(WeightCap, RatMul(w, 6, 5))
  ELSE RatMax(WeightFloor, RatMul(w, 4, 5))

\* optimal_query_length * 0.8 + current_length * 0.2
SmoothLength(old, len) == Rat(4 * old.n + len * old.d, 5 * old.d)

\* list.append, present or not
AppendAlways(s, x) == Append(s, x)

\* list.append unless already present
AppendNew(s, x) == IF x \in Range(s) THEN s ELSE Append(s, x)

\* The strategy's fields as one record
InitStrategy ==
  [query_success_rates |-> [c \in Categories |-> [success |-> 0, total |-> 0]],
   learned_patterns |->
     [effective_terms |-> {},
      ineffective_terms |-> {},
      optimal_query_length |-> Rat(0, 1),
      best_performing_categories |-> <<>>,
      successful_domains |-> {},
      successful_patterns |-> <<>>],
   current_phase |-> "domain_exploration",
   exploration_rounds |-> 0,
   domain_weights |-> [d \in DomainSet |-> One]]

\* learned_patterns after the success branch (lines 81-100)
LearnSuccess(lp, q, results, domain) ==
  LET hit == \E i \in DOMAIN results : HighScore(results[i]) IN
  [lp EXCEPT
     !.successful_domains = @ \cup {domain},
     !.successful_patterns = IF hit THEN AppendNew(@, IdentifyQueryPattern(q)) ELSE @,
     !.effective_terms = @ \cup SuccessfulTerms(q, results),
     !.optimal_query_length = SmoothLength(@, Len(Split(q)))]

\* learned_patterns after the failure branch (lines 102-105)
LearnFailure(lp, q) ==
  [lp EXCEPT !.ineffective_terms = (@ \cup CleanTerms(q)) \ lp.effective_terms]

\* an analyze_response that counted the query only after the weight update
AnalyzeCountingLast(S, q, results) ==
  LET success == results # <<>>
      query_type == CategorizeQuery(q)
      domain == IdentifyDomain(q)
      rates == [S.query_success_rates EXCEPT
                  ![query_type] = [success |-> @.success + (IF success THEN 1 ELSE 0),
                                   total |-> @.total + 1]]
      lp1 == IF success THEN LearnSuccess(S.learned_patterns, q, results, domain)
             ELSE LearnFailure(S.learned_patterns, q)
      lp2 == IF success
             THEN [lp1 EXCEPT !.best_performing_categories = AppendNew(@, query_type)]
             ELSE lp1
      S1 == [S EXCEPT !.learned_patterns = lp2]
  IN IF domain \in DOMAIN S.domain_weights
     THEN [strategy |-> [S1 EXCEPT !.domain_weights[domain] = UpdateWeight(@, success),
                                   !.query_success_rates = rates],
           raised |-> FALSE]
     ELSE [strategy |-> S1, raised |-> TRUE]

\* AdaptiveQueryStrategy.analyze_response: the strategy after the call and
\* whether the call raised KeyError at the weight update (lines 112, 114),
\* everything before which has then taken effect
analyze_response(S, q, results) ==
  LET success == results # <<>>
      query_type == CategorizeQuery(q)
      domain == IdentifyDomain(q)
      rates == [S.query_success_rates EXCEPT
                  ![query_type] = [success |-> @.success + (IF success THEN 1 ELSE 0),
                                   total |-> @.total + 1]]
      lp1 == IF success THEN LearnSuccess(S.learned_patterns, q, results, domain)
             ELSE LearnFailure(S.learned_patterns, q)
      lp2 == IF success
             THEN [lp1 EXCEPT !.best_performing_categories = AppendNew(@, query_type)]
             ELSE lp1
      S1 == [S EXCEPT !.query_success_rates = rates, !.learned_patterns = lp2]
  IN IF domain \in DOMAIN S.domain_weights
     THEN [strategy |-> [S1 EXCEPT !.domain_weights[domain] = UpdateWeight(@, success)],
           raised |-> FALSE]
     ELSE [strategy |-> S1, raised |-> TRUE]

\* ------------------------------------------------------------------------
\* Random draws.  Every draw of one generate_next_queries call is decoded
\* from one integer e in mixed radix: a draw from a list of n elements takes
\* element e % n (counted from 0) and leaves e \div n to the later draws.
\* Each outcome of the draws belongs to exactly one e; the model bounds e.
\* ------------------------------------------------------------------------
\* random.choice(seq), decoded from e
Choice(seq, e) == seq[(e % Len(seq)) + 1]

\* the entropy left after a draw from seq
After(seq, e) == e \div Len(seq)

\* a sequence without its elements in the set gone
RECURSIVE Without(_, _)
Without(seq, gone) ==
  IF seq = <<>> THEN <<>>
  ELSE IF Head(seq) \in gone THEN Without(Tail(seq), gone)
       ELSE <<Head(seq)>> \o Without(Tail(seq), gone)

\* list(a set of domain labels): catalog order, labels outside the catalog last
DomainList(S) ==
  LET inCat == Without(DomainNames, DomainSet \ S) IN
  IF "general" \in S THEN Append(inCat, "general") ELSE inCat

\* random.sample(pool, k), decoded from e
RECURSIVE Sample(_, _, _)
Sample(pool, k, e) ==
  IF k = 0 THEN <<>>
  ELSE LET x == Choice(pool, e) IN
       <<x>> \o Sample(Without(pool, {x}), k - 1, After(pool, e))

\* ------------------------------------------------------------------------
\* Query generation
\* ------------------------------------------------------------------------
\* sorted(self.domain_weights.items(), key=weight, reverse=True): stable, so
\* equal weights keep the declaration order
RECURSIVE InsertByWeight(_, _, _)
InsertByWeight(sorted, d, w) ==
  IF sorted = <<>> THEN <<d>>
  ELSE IF RatLess(w[Head(sorted)], w[d]) THEN <<d>> \o sorted
       ELSE <<Head(sorted)>> \o InsertByWeight(Tail(sorted), d, w)

RECURSIVE SortedPrefix(_, _)
SortedPrefix(w, n) ==
  IF n = 0 THEN <<>> ELSE InsertByWeight(SortedPrefix(w, n - 1), DomainNames[n], w)

SortedDomains(w) == SortedPrefix(w, Len(DomainNames))

\* the selections the first loop of _generate_domain_exploration_queries can
\* end with: random.random() < weight holds surely when weight >= 1.0 and
\* either way below
RECURSIVE AcceptFrom(_, _, _, _)
AcceptFrom(sorted, w, i, sel) ==
  IF i > Len(sorted) \/ Len(sel) >= 3 THEN {sel}
  ELSE LET d == sorted[i] IN
       IF RatLeq(One, w[d]) THEN AcceptFrom(sorted, w, i + 1, Append(sel, d))
       ELSE AcceptFrom(sorted, w, i + 1, Append(sel, d)) \cup AcceptFrom(sorted, w, i + 1, sel)

AcceptOutcomes(w) == AcceptFrom(SortedDomains(w), w, 1, <<>>)

\* the while loop that tops the selection up to 3 domains: a draw that is
\* already selected is skipped, so each round adds one of the others
RECURSIVE FillSelection(_, _)
FillSelection(sel, e) ==
  IF Len(sel) >= 3 THEN [sel |-> sel, rest |-> e]
  ELSE LET others == Without(DomainNames, Range(sel)) IN
       FillSelection(Append(sel, Choice(others, e)), After(others, e))

\* one entry of the returned list (the description text is left out)
Entry(query, type, domain) == [query |-> query, type |-> type, domain |-> domain]

\* the entries for the selected domains, each term a draw decoded from e
RECURSIVE ExplorationEntries(_, _)
ExplorationEntries(sel, e) ==
  IF sel = <<>> THEN <<>>
  ELSE <<Entry(Choice(domains[Head(sel)], e), "domain_exploration", Head(sel))>>
         \o ExplorationEntries(Tail(sel), After(domains[Head(sel)], e))

\* a domain exploration without the while loop that tops the selection up
ExplorationWithoutFill(sel, e) ==
  [raised |-> FALSE, queries |-> ExplorationEntries(sel, e)]

\* AdaptiveQueryStrategy._generate_domain_exploration_queries, the first loop
\* having selected sel
GenerateDomainExplorationQueries(sel, e) ==
  LET filled == FillSelection(sel, e) IN
  [raised |-> FALSE, queries |-> ExplorationEntries(filled.sel, filled.rest)]

\* the digit of e for a draw from n elements, the earlier draws having
\* used up the radix product base
Digit(e, base, n) == (e \div base) % n

\* one entry of the pattern and optimization generators
PatternEntry(pattern_type, d, term_digit, fill_digit, optimized) ==
  LET fills == PatternFills(pattern_type) IN
  Entry(ApplyPattern(pattern_type, domains[d][term_digit + 1],
                     IF fills = <<>> THEN "" ELSE fills[fill_digit + 1]),
        IF optimized THEN "optimized" ELSE pattern_type,
        d)

\* the number of seed terms of a sampled domain (1 for a label that is no
\* catalog domain, for which the lookup raises)
TermCount(d) == IF d \in DOMAIN domains THEN Len(domains[d]) ELSE 1

\* the loop over the sampled domains; optimized: the entries' type is
\* "optimized" instead of the pattern identifier.  self.domains[domain] and
\* self.query_patterns[pattern_type] raise KeyError for a label that is no
\* key.  The digits of e go to the first pattern, the second pattern, the
\* domain sample, the two inner draws of the patterns and the two terms.
PatternEntries(successful, patterns, optimized, e) ==
  LET pool == DomainList(successful)
      n == Len(pool)
      k == Min(2, n)
      np == Len(patterns)
      sample == Sample(pool, k, e \div (np * np))
      base == np * np * n * (IF k = 2 THEN n - 1 ELSE 1)
      pattern == [i \in 1..k |-> patterns[Digit(e, IF i = 1 THEN 1 ELSE np, np) + 1]]
      fill == [i \in 1..k |-> Digit(e, IF i = 1 THEN base ELSE base * 3, 3)]
      term == [i \in 1..k |->
                 Digit(e, IF i = 1 THEN base * 9 ELSE base * 9 * TermCount(sample[1]),
                       TermCount(sample[i]))]
      raised == \E i \in 1..k : sample[i] \notin DOMAIN domains \/ pattern[i] \notin PatternSet
  IN [raised |-> raised,
      queries |-> IF raised THEN <<>>
                  ELSE [i \in 1..k |->
                          PatternEntry(pattern[i], sample[i], term[i], fill[i], optimized)]]

\* learned set or list, or the whole catalog when it is empty ("x or y")
OrAllDomains(S) == IF S = {} THEN DomainSet ELSE S
OrAllPatterns(ps) == IF ps = <<>> THEN PatternNames ELSE ps

\* AdaptiveQueryStrategy._generate_pattern_exploration_queries
GeneratePatternExplorationQueries(lp, e) ==
  PatternEntries(OrAllDomains(lp.successful_domains), PatternNames, FALSE, e)

\* AdaptiveQueryStrategy._generate_optimized_queries
GenerateOptimizedQueries(lp, e) ==
  PatternEntries(OrAllDomains(lp.successful_domains),
                 OrAllPatterns(lp.successful_patterns), TRUE, e)

\* the phase and round counter after a call that did not raise
ResetPhase(phase, rounds) ==
  IF phase = "optimization" THEN [phase |-> "domain_exploration", rounds |-> 0]
  ELSE IF phase = "domain_exploration"
  THEN [phase |-> IF rounds + 1 >= max_exploration_rounds
                  THEN "pattern_exploration" ELSE phase,
        rounds |-> rounds + 1]
  ELSE [phase |-> IF rounds + 1 >= max_exploration_rounds * 2
                  THEN "optimization" ELSE phase,
        rounds |-> rounds + 1]

AdvancePhase(phase, rounds) ==
  IF phase = "domain_exploration"
  THEN [phase |-> IF rounds + 1 >= max_exploration_rounds
                  THEN "pattern_exploration" ELSE phase,
        rounds |-> rounds + 1]
  ELSE IF phase = "pattern_exploration"
  THEN [phase |-> IF rounds + 1 >= max_exploration_rounds * 2
                  THEN "optimization" ELSE phase,
        rounds |-> rounds + 1]
  ELSE [phase |-> phase, rounds |-> rounds]

\* a generate_next_queries that also cleared the learned pattern list
GenerateResultForgets(S, out, next) ==
  [strategy |-> IF out.raised THEN S
                ELSE [S EXCEPT !.current_phase = next.phase,
                               !.exploration_rounds = next.rounds,
                               !.learned_patterns.successful_patterns = <<>>],
   queries |-> out.queries,
   generator |-> S.current_phase,
   raised |-> out.raised]

\* the outcome of a generate_next_queries call whose generator gave out
GenerateResult(S, out, next) ==
  [strategy |-> IF out.raised THEN S
                ELSE [S EXCEPT !.current_phase = next.phase,
                               !.exploration_rounds = next.rounds],
   queries |-> out.queries,
   generator |-> S.current_phase,
   raised |-> out.raised]

\* AdaptiveQueryStrategy.generate_next_queries: the strategy after the call,
\* the returned list, the generator used and whether the call raised
\* KeyError (then nothing is returned and the round is not counted).
\* sel: the outcome of the weighted selection; e: the entropy of the draws
generate_next_queries(S, sel, e) ==
  GenerateResult(S,
                 IF S.current_phase = "domain_exploration"
                 THEN GenerateDomainExplorationQueries(sel, e)
                 ELSE IF S.current_phase = "pattern_exploration"
                 THEN GeneratePatternExplorationQueries(S.learned_patterns, e)
                 ELSE GenerateOptimizedQueries(S.learned_patterns, e),
                 AdvancePhase(S.current_phase, S.exploration_rounds))

\* AdaptiveQueryStrategy.get_learning_status
get_learning_status(S) ==
  [phase |-> S.current_phase,
   exploration_progress |-> <<S.exploration_rounds, max_exploration_rounds>>,
   learned_patterns |-> S.learned_patterns,
   success_rates |-> [c \in {x \in Categories : S.query_success_rates[x].total > 0}
                        |-> S.query_success_rates[c]]]

\* ------------------------------------------------------------------------
\* Result analyzer (analyzers.py)
\* ------------------------------------------------------------------------
\* number of records r of a result list with r.get("matched") == label
CountMatched(results, label) ==
  Cardinality({i \in DOMAIN results : results[i].matched = label})

RECURSIVE ScoreSum(_)
ScoreSum(results) ==
  IF results = <<>> THEN 0 ELSE Head(results).score + ScoreSum(Tail(results))

\* ResultAnalyzer.detect_matching_algorithm
DetectMatchingTieFuzzy(results) ==
  IF results = <<>> THEN "unknown"
  ELSE LET fuzzy_count == CountMatched(results, "fuzzy")
           exact_count == CountMatched(results, "exact")
       IN IF fuzzy_count >= exact_count THEN "fuzzy"
          ELSE IF exact_count > 0 THEN "exact"
          ELSE "unknown"

detect_matching_algorithm(results) ==
  IF results = <<>> THEN "unknown"
  ELSE LET fuzzy_count == CountMatched(results, "fuzzy")
           exact_count == CountMatched(results, "exact")
       IN IF fuzzy_count > exact_count THEN "fuzzy"
          ELSE IF exact_count > 0 THEN "exact"
          ELSE "unknown"

\* ResultAnalyzer.detect_ranking_factors; text_relevance in tenths, as a rational
detect_ranking_factors(results) ==
  [date_influenced |-> FALSE,
   popularity_signals |-> FALSE,
   text_relevance |-> IF results = <<>> THEN Rat(0, 1)
                      ELSE Rat(ScoreSum(results), Len(results))]

\* ResultAnalyzer.detect_tokenization_method
detect_tokenization_method(results) ==
  [splits_on_space |-> results # <<>>,
   removes_stopwords |-> results # <<>>,
   uses_stemming |-> FALSE]

\* ResultAnalyzer.analyze_results
analyze_results(results) ==
  IF results = <<>>
  THEN [ranking_factors |-> [date_influenced |-> FALSE, popularity_signals |-> FALSE,
                             text_relevance |-> Rat(0, 1)],
        matching_type |-> "unknown",
        tokenization |-> [splits_on_space |-> FALSE, removes_stopwords |-> FALSE,
                          uses_stemming |-> FALSE]]
  ELSE [ranking_factors |-> detect_ranking_factors(results),
        matching_type |-> detect_matching_algorithm(results),
        tokenization |-> detect_tokenization_method(results)]

RECURSIVE TimingSum(_, _)
TimingSum(db, keys) ==
  IF keys = {} THEN 0
  ELSE LET k == CHOOSE x \in keys : TRUE IN db[k].timing + TimingSum(db, keys \ {k})

\* an analyze_patterns whose exact ratio counted the exact samples only
AnalyzePatternsExactOnly(db) ==
  IF DOMAIN db = {}
  THEN [fuzzy_match_ratio |-> Rat(0, 1), exact_match_ratio |-> Rat(0, 1),
        average_response_time |-> Rat(0, 1)]
  ELSE LET total_queries == Cardinality(DOMAIN db)
           fuzzy_matches == Cardinality({q \in DOMAIN db :
                                db[q].characteristics.matching_type = "fuzzy"})
           exact_matches == Cardinality({q \in DOMAIN db :
                                db[q].characteristics.matching_type = "exact"})
       IN [fuzzy_match_ratio |-> Rat(fuzzy_matches, total_queries),
           exact_match_ratio |-> Rat(exact_matches, total_queries),
           average_response_time |-> Rat(TimingSum(db, DOMAIN db), total_queries)]

\* ResultAnalyzer.analyze_patterns, over a mapping query -> sample
analyze_patterns(db) ==
  IF DOMAIN db = {}
  THEN [fuzzy_match_ratio |-> Rat(0, 1), exact_match_ratio |-> Rat(0, 1),
        average_response_time |-> Rat(0, 1)]
  ELSE LET total_queries == Cardinality(DOMAIN db)
           fuzzy_matches == Cardinality({q \in DOMAIN db :
                                db[q].characteristics.matching_type = "fuzzy"})
       IN [fuzzy_match_ratio |-> Rat(fuzzy_matches, total_queries),
           exact_match_ratio |-> Rat(total_queries - fuzzy_matches, total_queries),
           average_response_time |-> Rat(TimingSum(db, DOMAIN db), total_queries)]

\* ResultAnalyzer.determine_algorithm_type
determine_algorithm_type(db) ==
  LET patterns == analyze_patterns(db) IN
  IF RatLess(Rat(8, 10), patterns.fuzzy_match_ratio) THEN "fuzzy_search"
  ELSE IF RatLess(Rat(9, 10), patterns.exact_match_ratio) THEN "exact_match"
  ELSE "hybrid"

\* ResultAnalyzer._check_result_consistency
CheckResultConsistency(db) == IF DOMAIN db = {} THEN Rat(0, 1) ELSE Rat(8, 10)

\* (a + b + c) / 3
RatMean3(a, b, c) ==
  Rat(a.n * b.d * c.d + b.n * a.d * c.d + c.n * a.d * b.d, 3 * a.d * b.d * c.d)

\* ResultAnalyzer.calculate_confidence
ConfidenceNotAveraged(db) ==
  IF DOMAIN db = {} THEN Rat(0, 1)
  ELSE LET patterns == analyze_patterns(db)
           mean == RatMean3(patterns.fuzzy_match_ratio, patterns.exact_match_ratio,
                            CheckResultConsistency(db))
       IN Rat(3 * mean.n, mean.d)

calculate_confidence(db) ==
  IF DOMAIN db = {} THEN Rat(0, 1)
  ELSE LET patterns == analyze_patterns(db) IN
       RatMean3(patterns.fuzzy_match_ratio, patterns.exact_match_ratio,
                CheckResultConsistency(db))

\* SearchReverseEngineer.generate_hypothesis
generate_hypothesis(db) ==
  [likely_algorithm |-> determine_algorithm_type(db),
   confidence_score |-> calculate_confidence(db),
   observed_patterns |-> analyze_patterns(db)]

\* the sample collect_sample builds at time now, the timing call taking dt
BuildSample(results, now, dt) ==
  [results |-> results,
   timestamp |-> now,
   characteristics |-> analyze_results(results),
   timing |-> dt]

\* self.results_database[query] = analysis
StoreKeepFirst(db, query, sample) ==
  IF query \in DOMAIN db THEN db
  ELSE [q \in DOMAIN db \cup {query} |-> IF q = query THEN sample ELSE db[q]]

StoreSample(db, query, sample) ==
  [q \in DOMAIN db \cup {query} |-> IF q = query THEN sample ELSE db[q]]

\* ------------------------------------------------------------------------
\* Inputs of the harnesses and the environment
\* ------------------------------------------------------------------------
\* one result record of the endpoint; score in tenths
Result(title, score, matched) == [title |-> title, score |-> score, matched |-> matched]

\* 'education', 'coding', '"python"'
HarnessQueries == {W("education"), W("coding"), <<QT, "python", QT>>}

\* no result; one low-scoring result; one high-scoring result
HarnessResults ==
  {<<>>,
   <<Result(W("Education"), 5, "fuzzy")>>,
   <<Result(W2("Education", "Guide"), 9, "exact")>>}

DeepQueries == {W("education")}

DeepResults == {<<>>, <<Result(W2("Education", "Guide"), 9, "exact")>>}

SampleQueries == {W("education"), W("research"), <<QT, "python", QT>>}

SampleResults ==
  {<<>>,
   <<Result(W("Research"), 5, "fuzzy")>>,
   <<Result(W2("Education", "Guide"), 9, "exact"), Result(W("Research"), 5, "fuzzy")>>}

\* the tokens of the queries _categorize_query is probed with:
\* a, b, AND, OR, weird!!, "q"
ProbeTokens ==
  {W("a"), W("b"), W("AND"), W("OR"), <<"weird", BANG, BANG>>, <<QT, "q", QT>>}

\* " ".join(ts)
RECURSIVE JoinTerms(_)
JoinTerms(ts) ==
  IF ts = <<>> THEN <<>>
  ELSE IF Len(ts) = 1 THEN ts[1]
  ELSE ts[1] \o <<SP>> \o JoinTerms(Tail(ts))

\* up to MaxTerms tokens joined by blanks, also with a leading blank
ProbeQueries ==
  LET joined == {JoinTerms(ts) : ts \in UNION {[1..n -> ProbeTokens] : n \in 0..MaxTerms}}
  IN joined \cup {<<SP>> \o q : q \in joined}

\* what the and_combo and or_combo patterns make of a catalog term
ComboQueries ==
  {ApplyPattern(p, domains.general_academic[1], PatternFills(p)[f]) :
     p \in {"and_combo", "or_combo"}, f \in 1..3}

\* a result list of n records, the first k of them matched "fuzzy", the
\* others "exact"
MatchedList(n, k) ==
  [i \in 1..n |-> IF i <= k THEN Result(W("Guide"), 5, "fuzzy")
                  ELSE Result(W("Guide"), 12, "exact")]

\* the result lists the analyzer harness collects: none; 9 of 10 fuzzy;
\* one fuzzy and one exact; one record with another label
ProbeResults ==
  {<<>>,
   MatchedList(10, 9),
   MatchedList(2, 1),
   <<Result(W("Guide"), 5, "partial")>>}

\* the queries of the analyzer harness, in the order it collects them
ProbeList == domains.general_academic

\* the result lists detect_matching_algorithm is called on: every list of up
\* to MaxList records labelled fuzzy, exact or partial, and 9 fuzzy of 10
LabelledLists ==
  {[i \in DOMAIN f |-> Result(W("Guide"), 5, f[i])] :
     f \in UNION {[1..n -> {"fuzzy", "exact", "partial"}] : n \in 0..MaxList}}
    \cup {MatchedList(10, 9)}

\* the queries analyze_response is called on with its arguments recorded:
\* the harness queries, the and_combo and or_combo queries and 'data mining'
LearnQueries == HarnessQueries \cup ComboQueries \cup {W2("data", "mining")}

\* the weights a strategy can hold when domain exploration is called: the
\* domains of a set high at 1.0 or at the cap, the others at 0.8 or at the
\* floor (all at the floor, all at 1.0 and all at the cap included)
HighDomains ==
  {{}, {"science"}, {"science", "media"}, {"science", "media", "healthcare"},
   {"science", "media", "healthcare", "general_academic"}, DomainSet}

ExploreWeights ==
  {[d \in DomainSet |-> IF d \in H THEN hi ELSE lo] :
     H \in HighDomains, hi \in {One, WeightCap}, lo \in {WeightFloor, Rat(4, 5)}}

\* the fills a pattern can be applied with ("": the pattern draws none)
FillSet(p) == IF PatternFills(p) = <<>> THEN {""} ELSE Range(PatternFills(p))

\* every entry _generate_domain_exploration_queries can return: a seed term
\* of a catalog domain, as it stands
ExplorationEntrySet ==
  UNION {{Entry(domains[d][i], "domain_exploration", d) : i \in DOMAIN domains[d]} :
           d \in DomainSet}

\* every entry _generate_pattern_exploration_queries can return: a catalog
\* pattern applied to a seed term of a catalog domain
PatternEntrySet ==
  UNION {UNION {{Entry(ApplyPattern(p, domains[d][i], f), p, d) : f \in FillSet(p)} :
                  i \in DOMAIN domains[d]} :
           d \in DomainSet, p \in PatternSet}

\* the endpoints a run is pointed at: response.json() of a 2xx reply
Servers == {"exact", "fuzzy"}

ServerResults(kind, q) ==
  IF kind = "exact" THEN <<Result(Cat(W("Guide"), q), 12, "exact")>>
  ELSE <<Result(W("Guide"), 3, "fuzzy")>>

\* ------------------------------------------------------------------------
\* State
\* ------------------------------------------------------------------------
VARIABLES
  strategy,          \* the AdaptiveQueryStrategy instance (its fields)
  results_database,  \* SearchReverseEngineer.results_database
  pc,                \* position of main() / run_test_suite
  net,               \* the transport: "up", "down", or "unreachable" at the probe
  server,            \* the endpoint the run talks to
  results,           \* run_test_suite: the local dict results
  test_cases,        \* run_test_suite: the initial batch
  tc,                \* run_test_suite: index of the outer loop
  next_queries,      \* run_test_suite: the follow-up batch
  nq,                \* run_test_suite: index of the inner loop (0: outer level)
  search_results,    \* run_test_suite: the result of the last perform_search
  returned,          \* the value run_test_suite returned
  clock,             \* time.time()
  queries,           \* the list generate_next_queries returned, if it was the last call
  status,            \* the snapshot get_learning_status returned, if it was the last call
  last,              \* the last strategy call: operation, generator, raised
  calls,             \* calls made so far, per operation; polls: the
                     \* get_learning_status calls since the last other call
  fail_count,        \* transport failures so far
  sample_log,        \* the collect_sample calls so far: <<query, sample>>
  arg,               \* the argument of the last direct call of a helper method
  ret                \* the value that call returned

vars ==
  <<strategy, results_database, pc, net, server, results, test_cases, tc,
    next_queries, nq, search_results, returned, clock, queries, status, last,
    calls, fail_count, sample_log, arg, ret>>

\* what the calls made on the strategy and on the store leave alone
runVars == <<pc, net, server, results, test_cases, tc, next_queries, nq,
             search_results, returned, fail_count, arg, ret>>

NoCall == [op |-> "none", generator |-> "none", raised |-> FALSE]

Init ==
  /\ strategy = InitStrategy
  /\ results_database = <<>>
  /\ pc = "main"
  /\ net = "up"
  /\ server = "exact"
  /\ results = <<>>
  /\ test_cases = <<>>
  /\ tc = 0
  /\ next_queries = <<>>
  /\ nq = 0
  /\ search_results = <<>>
  /\ returned = <<>>
  /\ clock = 0
  /\ queries = <<>>
  /\ status = <<>>
  /\ last = NoCall
  /\ calls = [generate |-> 0, entries |-> 0, analyze |-> 0, search |-> 0, collect |-> 0,
              polls |-> 0]
  /\ fail_count = 0
  /\ sample_log = <<>>
  /\ arg = <<>>
  /\ ret = <<>>

\* ------------------------------------------------------------------------
\* The operations, as steps on the state
\* ------------------------------------------------------------------------
\* the effect of an analyze_response call with outcome out
SetAnalyzed(out) ==
  /\ strategy' = out.strategy
  /\ last' = [op |-> "analyze", generator |-> "none", raised |-> out.raised]
  /\ calls' = [calls EXCEPT !.analyze = @ + 1, !.polls = 0]
  /\ queries' = <<>>
  /\ status' = <<>>

\* self.adaptive_strategy.analyze_response(q, r)
DoAnalyze(q, r) == SetAnalyzed(analyze_response(strategy, q, r))

Entropy == 0..(MaxEntropy - 1)

\* the effect of a generate_next_queries call with outcome out
SetGenerated(out) ==
  /\ strategy' = out.strategy
  /\ last' = [op |-> "generate", generator |-> out.generator, raised |-> out.raised]
  /\ calls' = [calls EXCEPT !.generate = @ + 1, !.entries = @ + Len(out.queries),
                            !.polls = 0]
  /\ queries' = out.queries
  /\ status' = <<>>

\* self.adaptive_strategy.generate_next_queries(...)
DoGenerate ==
  \E sel \in AcceptOutcomes(strategy.domain_weights), e \in Entropy :
    SetGenerated(generate_next_queries(strategy, sel, e))

\* self.collect_sample(q, r), time.time() advancing by one tick per call and
\* by dt during measure_timing
DoCollect(q, r, dt) ==
  LET sample == BuildSample(r, clock, dt) IN
  /\ results_database' = StoreSample(results_database, q, sample)
  /\ sample_log' = Append(sample_log, <<q, sample>>)
  /\ clock' = clock + 1 + dt
  /\ calls' = [calls EXCEPT !.collect = @ + 1]

\* ---- the strategy driven through its public methods ----------------------
AnalyzeResponse ==
  /\ pc = "main"
  /\ calls.analyze < MaxCalls
  /\ \E q \in HarnessQueries, r \in HarnessResults : DoAnalyze(q, r)
  /\ UNCHANGED <<results_database, runVars, clock, sample_log>>

\* analyze_response on an entry the last generate_next_queries call returned
AnalyzeEntry ==
  /\ pc = "main"
  /\ calls.analyze < MaxCalls
  /\ \E i \in DOMAIN queries, r \in HarnessResults : DoAnalyze(queries[i].query, r)
  /\ UNCHANGED <<results_database, runVars, clock, sample_log>>

GenerateNextQueries ==
  /\ pc = "main"
  /\ calls.generate < MaxGen
  /\ DoGenerate
  /\ UNCHANGED <<results_database, runVars, clock, sample_log>>

GetLearningStatus ==
  /\ pc = "main"
  /\ status' = get_learning_status(strategy)
  /\ last' = [op |-> "status", generator |-> "none", raised |-> FALSE]
  /\ queries' = <<>>
  /\ UNCHANGED <<strategy, results_database, runVars, clock, calls, sample_log>>

Next == AnalyzeResponse \/ AnalyzeEntry \/ GenerateNextQueries \/ GetLearningStatus

Spec == Init /\ [][Next]_vars

\* ---- one domain probed again and again -----------------------------------
AnalyzeDeep ==
  /\ pc = "main"
  /\ calls.analyze < MaxDeep
  /\ \E q \in DeepQueries, r \in DeepResults : DoAnalyze(q, r)
  /\ UNCHANGED <<results_database, runVars, clock, sample_log>>

NextDeep == AnalyzeDeep \/ GenerateNextQueries

SpecDeep == Init /\ [][NextDeep]_vars

\* ---- the status read again and again between the other calls -------------
PollStatusCounting ==
  /\ pc = "main"
  /\ calls.polls < MaxPolls
  /\ status' = get_learning_status(strategy)
  /\ strategy' = [strategy EXCEPT !.exploration_rounds = @ + 1]
  /\ last' = [op |-> "status", generator |-> "none", raised |-> FALSE]
  /\ queries' = <<>>
  /\ calls' = [calls EXCEPT !.polls = @ + 1]
  /\ UNCHANGED <<results_database, runVars, clock, sample_log>>

PollStatus ==
  /\ pc = "main"
  /\ calls.polls < MaxPolls
  /\ status' = get_learning_status(strategy)
  /\ last' = [op |-> "status", generator |-> "none", raised |-> FALSE]
  /\ queries' = <<>>
  /\ calls' = [calls EXCEPT !.polls = @ + 1]
  /\ UNCHANGED <<strategy, results_database, runVars, clock, sample_log>>

NextStatus == AnalyzeDeep \/ GenerateNextQueries \/ PollStatus

SpecStatus == Init /\ [][NextStatus]_vars

\* ---- _categorize_query called directly --------------------------------------
Categorize ==
  /\ pc = "main"
  /\ \E q \in ProbeQueries \cup ComboQueries :
       /\ arg' = q
       /\ ret' = CategorizeQuery(q)
  /\ last' = [op |-> "categorize", generator |-> "none", raised |-> FALSE]
  /\ UNCHANGED <<strategy, results_database, pc, net, server, results, test_cases, tc,
                 next_queries, nq, search_results, returned, clock, queries, status,
                 calls, fail_count, sample_log>>

NextCategorize == Categorize

SpecCategorize == Init /\ [][NextCategorize]_vars

\* ---- the analyzer called directly and over collected samples --------------
\* collect_sample for the next query of ProbeList
CollectProbe ==
  /\ pc = "main"
  /\ calls.collect < MaxProbe
  /\ calls.collect < Len(ProbeList)
  /\ \E r \in ProbeResults : DoCollect(ProbeList[calls.collect + 1], r, 0)
  /\ last' = [op |-> "collect", generator |-> "none", raised |-> FALSE]
  /\ arg' = <<>>
  /\ ret' = <<>>
  /\ UNCHANGED <<strategy, pc, net, server, results, test_cases, tc, next_queries, nq,
                 search_results, returned, queries, status, fail_count>>

\* self.generate_hypothesis(self.results_database)
Hypothesize ==
  /\ pc = "main"
  /\ arg' = results_database
  /\ ret' = generate_hypothesis(results_database)
  /\ last' = [op |-> "hypothesis", generator |-> "none", raised |-> FALSE]
  /\ UNCHANGED <<strategy, results_database, pc, net, server, results, test_cases, tc,
                 next_queries, nq, search_results, returned, clock, queries, status,
                 calls, fail_count, sample_log>>

\* self.analyzer.detect_matching_algorithm(r)
DetectMatching ==
  /\ pc = "main"
  /\ calls.collect = 0
  /\ \E r \in LabelledLists :
       /\ arg' = r
       /\ ret' = detect_matching_algorithm(r)
  /\ last' = [op |-> "detect", generator |-> "none", raised |-> FALSE]
  /\ UNCHANGED <<strategy, results_database, pc, net, server, results, test_cases, tc,
                 next_queries, nq, search_results, returned, clock, queries, status,
                 calls, fail_count, sample_log>>

NextAnalyzer == CollectProbe \/ Hypothesize \/ DetectMatching

SpecAnalyzer == Init /\ [][NextAnalyzer]_vars

\* ---- analyze_response called with its arguments recorded -------------------
AnalyzeCall ==
  /\ pc = "main"
  /\ calls.analyze < MaxCalls
  /\ \E q \in LearnQueries, r \in HarnessResults :
       /\ DoAnalyze(q, r)
       /\ arg' = <<q, r>>
  /\ ret' = <<>>
  /\ UNCHANGED <<results_database, pc, net, server, results, test_cases, tc,
                 next_queries, nq, search_results, returned, clock, fail_count,
                 sample_log>>

NextLearn == AnalyzeCall

SpecLearn == Init /\ [][NextLearn]_vars

\* ---- domain exploration called on a strategy with given weights -----------
InitExplore ==
  /\ \E w \in ExploreWeights : strategy = [InitStrategy EXCEPT !.domain_weights = w]
  /\ results_database = <<>>
  /\ pc = "main"
  /\ net = "up"
  /\ server = "exact"
  /\ results = <<>>
  /\ test_cases = <<>>
  /\ tc = 0
  /\ next_queries = <<>>
  /\ nq = 0
  /\ search_results = <<>>
  /\ returned = <<>>
  /\ clock = 0
  /\ queries = <<>>
  /\ status = <<>>
  /\ last = NoCall
  /\ calls = [generate |-> 0, entries |-> 0, analyze |-> 0, search |-> 0, collect |-> 0,
              polls |-> 0]
  /\ fail_count = 0
  /\ sample_log = <<>>
  /\ arg = <<>>
  /\ ret = <<>>

\* the first generate_next_queries call of the strategy
GenerateFirst ==
  /\ pc = "main"
  /\ calls.generate = 0
  /\ DoGenerate
  /\ UNCHANGED <<results_database, runVars, clock, sample_log>>

NextExplore == GenerateFirst

SpecExplore == InitExplore /\ [][NextExplore]_vars

\* ---- analyze_response called on an entry a generator can return ------------
\* the first analyze_response call of the strategy, as run_test_suite makes it
\* for an entry: analyze_response(entry["query"], results)
AnalyzeGenerated ==
  /\ pc = "main"
  /\ calls.analyze = 0
  /\ \E entry \in ExplorationEntrySet \cup PatternEntrySet, r \in HarnessResults :
       /\ DoAnalyze(entry.query, r)
       /\ arg' = <<entry.query, r, entry>>
  /\ ret' = <<>>
  /\ UNCHANGED <<results_database, pc, net, server, results, test_cases, tc,
                 next_queries, nq, search_results, returned, clock, fail_count,
                 sample_log>>

NextEntries == AnalyzeGenerated

SpecEntries == Init /\ [][NextEntries]_vars

\* ---- the sample store driven through collect_sample ----------------------
CollectSample ==
  /\ pc = "main"
  /\ calls.collect < MaxCollect
  /\ \E q \in SampleQueries, r \in SampleResults, dt \in {0, 1} : DoCollect(q, r, dt)
  /\ UNCHANGED <<strategy, runVars, queries, status, last>>

NextStore == CollectSample

SpecStore == Init /\ [][NextStore]_vars

\* ---- main() of the driver and run_test_suite ------------------------------
\* the query of the entry the loops of run_test_suite are at
CurrentQuery == IF nq = 0 THEN test_cases[tc].query ELSE next_queries[nq].query

\* leave the body of the outer loop: its next entry, or the return statement
LeaveOuter ==
  /\ nq' = 0
  /\ IF tc < Len(test_cases)
     THEN tc' = tc + 1 /\ pc' = "search"
     ELSE tc' = tc /\ pc' = "finish"

\* main(), lines 85 to 87: where it goes once test_server_connection returned ok
ProceedAnyway(ok) == "start"

AfterProbe(ok) == IF ok THEN "start" ELSE "aborted"

\* test_server_connection(target_url) caught a RequestException
ProbeFail ==
  /\ pc = "main"
  /\ pc' = AfterProbe(FALSE)
  /\ net' = "unreachable"
  /\ UNCHANGED <<arg, ret, strategy, results_database, server, results, test_cases, tc,
                 next_queries, nq, search_results, returned, clock, queries, status,
                 last, calls, fail_count, sample_log>>

\* test_server_connection(target_url) returned True; n and s: the transport
\* and the endpoint the requests of the run will meet
ProbeOk ==
  /\ pc = "main"
  /\ pc' = AfterProbe(TRUE)
  /\ \E n \in {"up", "down"}, s \in Servers :
       /\ n = "down" => s = "exact"
       /\ net' = n
       /\ server' = s
  /\ UNCHANGED <<arg, ret, strategy, results_database, results, test_cases, tc, next_queries, nq,
                 search_results, returned, clock, queries, status, last, calls,
                 fail_count, sample_log>>

\* run_test_suite, line 32, and the entry of the outer loop
SetInitialBatch(out) ==
  /\ SetGenerated(out)
  /\ test_cases' = out.queries
  /\ IF out.raised THEN pc' = "crashed" /\ tc' = tc
     ELSE IF out.queries = <<>> THEN pc' = "finish" /\ tc' = tc
     ELSE pc' = "search" /\ tc' = 1

StartRun ==
  /\ pc = "start"
  /\ \E sel \in AcceptOutcomes(strategy.domain_weights), e \in Entropy :
       SetInitialBatch(generate_next_queries(strategy, sel, e))
  /\ UNCHANGED <<arg, ret, results_database, net, server, results, next_queries, nq,
                 search_results, returned, clock, fail_count, sample_log>>

\* DataCollector.perform_search: [] on a RequestException, else response.json()
perform_search(failed, kind, q) == IF failed THEN <<>> ELSE ServerResults(kind, q)

\* run_test_suite, lines 36 and 47
PerformSearch ==
  /\ pc = "search"
  /\ \E failed \in BOOLEAN :
       /\ failed => (net # "up" \/ fail_count < MaxFail)
       /\ ~failed => net = "up"
       /\ search_results' = perform_search(failed, server, CurrentQuery)
       /\ fail_count' = IF failed /\ net = "up" THEN fail_count + 1 ELSE fail_count
  /\ calls' = [calls EXCEPT !.search = @ + 1]
  /\ pc' = "collect"
  /\ UNCHANGED <<arg, ret, strategy, results_database, net, server, results, test_cases, tc,
                 next_queries, nq, returned, clock, queries, status, last, sample_log>>

\* run_test_suite, lines 37 and 48: results[query] = self.collect_sample(...)
StoreResult ==
  /\ pc = "collect"
  /\ DoCollect(CurrentQuery, search_results, 0)
  /\ results' = StoreSample(results, CurrentQuery, BuildSample(search_results, clock, 0))
  /\ pc' = "analyze"
  /\ UNCHANGED <<arg, ret, strategy, net, server, test_cases, tc, next_queries, nq,
                 search_results, returned, queries, status, last, fail_count>>

\* where run_test_suite goes after analyze_response: a KeyError leaves it,
\* line 40 is followed by the follow-up call, line 49 by the inner loop
FollowUpAlways(out) ==
  IF out.raised THEN pc' = "crashed" /\ UNCHANGED <<tc, nq>>
  ELSE pc' = "follow" /\ UNCHANGED <<tc, nq>>

AfterAnalyze(out) ==
  IF out.raised THEN pc' = "crashed" /\ UNCHANGED <<tc, nq>>
  ELSE IF nq = 0 THEN pc' = "follow" /\ UNCHANGED <<tc, nq>>
  ELSE IF nq < Len(next_queries) THEN pc' = "search" /\ nq' = nq + 1 /\ tc' = tc
  ELSE LeaveOuter

\* run_test_suite, lines 40 and 49
Learn ==
  /\ pc = "analyze"
  /\ DoAnalyze(CurrentQuery, search_results)
  /\ AfterAnalyze(analyze_response(strategy, CurrentQuery, search_results))
  /\ UNCHANGED <<arg, ret, results_database, net, server, results, test_cases, next_queries,
                 search_results, returned, clock, fail_count, sample_log>>

\* run_test_suite, lines 43 to 45
SetFollowUp(out) ==
  /\ SetGenerated(out)
  /\ IF out.raised THEN pc' = "crashed" /\ UNCHANGED <<tc, nq, next_queries>>
     ELSE /\ next_queries' = out.queries
          /\ IF out.queries # <<>> THEN pc' = "search" /\ nq' = 1 /\ tc' = tc
             ELSE LeaveOuter

FollowUp ==
  /\ pc = "follow"
  /\ \E sel \in AcceptOutcomes(strategy.domain_weights), e \in Entropy :
       SetFollowUp(generate_next_queries(strategy, sel, e))
  /\ UNCHANGED <<arg, ret, results_database, net, server, results, test_cases,
                 search_results, returned, clock, fail_count, sample_log>>

\* run_test_suite, line 51
Finish ==
  /\ pc = "finish"
  /\ returned' = [likely_algorithm |-> generate_hypothesis(results).likely_algorithm,
                  confidence_score |-> generate_hypothesis(results).confidence_score,
                  observed_patterns |-> generate_hypothesis(results).observed_patterns,
                  learning_status |-> get_learning_status(strategy)]
  /\ pc' = "done"
  /\ UNCHANGED <<arg, ret, strategy, results_database, net, server, results, test_cases, tc,
                 next_queries, nq, search_results, clock, queries, status, last,
                 calls, fail_count, sample_log>>

NextRun ==
  ProbeFail \/ ProbeOk \/ StartRun \/ PerformSearch \/ StoreResult \/ Learn
    \/ FollowUp \/ Finish

SpecRun == Init /\ [][NextRun]_vars

\* ------------------------------------------------------------------------
\* Properties
\* ------------------------------------------------------------------------
\* C1: after any sequence of analyze_response calls, interleaved with any
\* generate_next_queries calls, every domain of the catalog has a weight and
\* every weight lies in the closed interval [0.1, 2.0]
C1_WeightsClamped ==
  /\ DOMAIN strategy.domain_weights = DomainSet
  /\ \A d \in DomainSet :
       /\ RatLeq(WeightFloor, strategy.domain_weights[d])
       /\ RatLeq(strategy.domain_weights[d], WeightCap)

\* a domain driven down to the floor by failed queries, with generate calls
\* in between
C1_Witness ==
  /\ calls.generate > 0
  /\ \E d \in DomainSet : strategy.domain_weights[d] = WeightFloor

\* C2: every generate_next_queries call, in every phase and after any
\* sequence of calls, returns a list with at least one entry, and the domain
\* of every entry is a key of the domain catalog
C2_GenerateReturnsCatalogEntries ==
  last.op = "generate" =>
    /\ ~last.raised
    /\ queries # <<>>
    /\ \A i \in DOMAIN queries : queries[i].domain \in DomainSet

PhaseRank(p) ==
  IF p = "domain_exploration" THEN 1
  ELSE IF p = "pattern_exploration" THEN 2
  ELSE 3

\* C3: the phase only moves forward in the order domain_exploration,
\* pattern_exploration, optimization: no call takes it back to an earlier
\* phase, and once it is optimization it never changes
C3_PhaseOnlyMovesForward ==
  [][PhaseRank(strategy'.current_phase) >= PhaseRank(strategy.current_phase)]_vars

\* the optimization generator has served a call, with analyze calls made
C3_Witness ==
  /\ strategy.current_phase = "optimization"
  /\ last.op = "generate"
  /\ last.generator = "optimization"
  /\ calls.analyze > 0

\* the phase in force once k generate_next_queries calls were made
PhaseAfter(k) ==
  IF k < max_exploration_rounds THEN "domain_exploration"
  ELSE IF k < 2 * max_exploration_rounds THEN "pattern_exploration"
  ELSE "optimization"

\* C4: whatever analyze_response calls are interleaved, the k-th
\* generate_next_queries call uses the domain-exploration generator for
\* k = 1..3, the pattern-exploration generator for k = 4..6 and the
\* optimization generator for k >= 7: the phase is pattern_exploration after
\* the 3rd call and optimization after the 6th
C4_PhaseByCallCount ==
  /\ strategy.current_phase = PhaseAfter(calls.generate)
  /\ last.op = "generate" => last.generator = PhaseAfter(calls.generate - 1)

\* C5: when run_test_suite returns on a fresh instance, the phase in the
\* returned learning_status is the terminal phase optimization
C5_RunEndsInOptimization ==
  pc = "done" => returned.learning_status.phase = "optimization"

\* C6: one run_test_suite execution calls generate_next_queries once for the
\* initial batch and once more after each query of that batch, 1 + the size
\* of the batch in total; the queries of a follow-up batch are searched,
\* stored and analysed, and none of them is followed by a generate call
C6_OneFollowUpPerInitialQuery ==
  /\ pc = "follow" => nq = 0 /\ calls.generate = tc
  /\ (pc \in {"search", "collect", "analyze"} /\ nq = 0) => calls.generate = tc
  /\ (pc \in {"search", "collect", "analyze"} /\ nq > 0) => calls.generate = tc + 1
  /\ pc = "crashed" => calls.generate <= 1 + Len(test_cases)
  /\ pc \in {"finish", "done"} =>
       /\ calls.generate = 1 + Len(test_cases)
       /\ calls.search = calls.entries
       /\ calls.collect = calls.entries
       /\ calls.analyze = calls.entries

\* a run that returned after executing follow-up queries
C6_Witness ==
  /\ pc = "done"
  /\ Len(test_cases) = 3
  /\ calls.entries > Len(test_cases)
  /\ calls.analyze = calls.entries

\* C7: a search request that fails at the transport layer gives an empty
\* result list, the run goes on, and analyze_response records the query as
\* unsuccessful: the total of its category rises by one with no success
\* counted and the weight of its domain is lowered (x0.8, floor 0.1)
C7_FailedRequestRecorded ==
  [][(pc = "analyze" /\ search_results = <<>>) =>
       /\ pc' # "crashed"
       /\ IdentifyDomain(CurrentQuery) \in DomainSet
       /\ strategy'.domain_weights[IdentifyDomain(CurrentQuery)] =
            RatMax(WeightFloor,
                   RatMul(strategy.domain_weights[IdentifyDomain(CurrentQuery)], 4, 5))
       /\ strategy'.query_success_rates[CategorizeQuery(CurrentQuery)] =
            [success |-> strategy.query_success_rates[CategorizeQuery(CurrentQuery)].success,
             total |-> strategy.query_success_rates[CategorizeQuery(CurrentQuery)].total + 1]
    ]_vars

\* C8: when the connectivity probe fails the run aborts before
\* run_test_suite: no search request is issued, no sample is stored and the
\* strategy is as constructed
C8_ProbeFailureAborts ==
  net = "unreachable" =>
    /\ pc = "aborted"
    /\ calls.search = 0
    /\ calls.generate = 0
    /\ calls.analyze = 0
    /\ calls.collect = 0
    /\ results_database = <<>>
    /\ sample_log = <<>>
    /\ results = <<>>
    /\ returned = <<>>
    /\ strategy = InitStrategy

\* main() has returned after the failed probe
C8_Witness == pc = "aborted" /\ net = "unreachable"

\* C9: after any sequence of analyze_response calls effective_terms and
\* ineffective_terms are disjoint
C9_TermSetsDisjoint ==
  strategy.learned_patterns.effective_terms
    \cap strategy.learned_patterns.ineffective_terms = {}

\* the last collect_sample call made for query q
LastCollect(q) ==
  CHOOSE i \in DOMAIN sample_log :
    /\ sample_log[i][1] = q
    /\ \A j \in DOMAIN sample_log : j > i => sample_log[j][1] # q

\* C10: after any sequence of collect_sample calls the database has one
\* sample per distinct query string collected, the one built by the most
\* recent call for that string; the samples of other strings are untouched
C10_LastSampleWins ==
  /\ DOMAIN results_database = {sample_log[i][1] : i \in DOMAIN sample_log}
  /\ \A q \in DOMAIN results_database :
       results_database[q] = sample_log[LastCollect(q)][2]

\* a query collected twice with different samples, beside another query
C10_Witness ==
  /\ Cardinality(DOMAIN results_database) >= 2
  /\ \E i, j \in DOMAIN sample_log :
       /\ i < j
       /\ sample_log[i][1] = sample_log[j][1]
       /\ sample_log[i][2] # sample_log[j][2]
       /\ results_database[sample_log[j][1]] = sample_log[j][2]

\* C11: two get_learning_status calls with no analyze_response or
\* generate_next_queries call in between return equal snapshots, and a
\* get_learning_status call changes no field of the strategy
C11_StatusIdempotent ==
  [][/\ calls'.polls > calls.polls => strategy' = strategy
     /\ calls'.polls > 1 => status' = status
    ]_vars

\* the status read twice in a row, after the strategy has learned and
\* generated
C11_Witness ==
  /\ calls.polls = 2
  /\ calls.analyze > 0
  /\ calls.generate > 0
  /\ status.success_rates # <<>>

\* some character of q is neither alphanumeric nor whitespace
HasSymbol(q) == \E i \in DOMAIN q : q[i] \in {QT, BANG}

\* q contains the literal " AND " or " OR "
HasBoolean(q) ==
  \E i \in 1..(Len(q) - 2) : q[i] = SP /\ q[i + 1] \in {"AND", "OR"} /\ q[i + 2] = SP

\* C12: _categorize_query returns the label of the first rule that matches
\* in the order exact (more than 2 terms), partial (exactly 1 term), fuzzy
\* (a character neither alphanumeric nor whitespace), compound (contains
\* " AND " or " OR "), and general when none matches
C12_FirstMatchingRuleWins ==
  last.op = "categorize" =>
    ret = IF Len(Split(arg)) > 2 THEN "exact"
          ELSE IF Len(Split(arg)) = 1 THEN "partial"
          ELSE IF HasSymbol(arg) THEN "fuzzy"
          ELSE IF HasBoolean(arg) THEN "compound"
          ELSE "general"

\* a query that three rules match, labelled by the first of them
C12_Witness ==
  /\ last.op = "categorize"
  /\ ret = "exact"
  /\ HasSymbol(arg)
  /\ HasBoolean(arg)

\* C13: a query containing a character that is neither alphanumeric nor
\* whitespace, such as the single token weird!!, is categorized as fuzzy
C13_SymbolMeansFuzzy ==
  (last.op = "categorize" /\ HasSymbol(arg)) => ret = "fuzzy"

\* q is t1 AND t2 or t1 OR t2 for alphanumeric terms t1, t2
IsBooleanCombo(q) ==
  /\ Len(q) = 5
  /\ IsAlnumLexeme(q[1])
  /\ q[2] = SP
  /\ q[3] \in {"AND", "OR"}
  /\ q[4] = SP
  /\ IsAlnumLexeme(q[5])

\* C14: two alphanumeric terms joined by " AND " or " OR ", such as
\* a AND b and the queries of the and_combo and or_combo patterns, are
\* categorized as compound
C14_BooleanComboMeansCompound ==
  (last.op = "categorize" /\ IsBooleanCombo(arg)) => ret = "compound"

\* the samples of db whose result list was labelled fuzzy, over all samples
FuzzyShare(db) ==
  Rat(Cardinality({q \in DOMAIN db : db[q].characteristics.matching_type = "fuzzy"}),
      Cardinality(DOMAIN db))

\* C15: calculate_confidence is 0.0 for an empty sample database; for a
\* non-empty one it is the mean of fuzzy_match_ratio, exact_match_ratio and
\* the consistency term 0.8, and lies in [0, 1]
C15_ConfidenceIsThreeTermMean ==
  last.op = "hypothesis" =>
    IF DOMAIN arg = {} THEN ret.confidence_score = Rat(0, 1)
    ELSE /\ ret.observed_patterns.fuzzy_match_ratio = FuzzyShare(arg)
         /\ ret.confidence_score =
              RatMean3(FuzzyShare(arg), ret.observed_patterns.exact_match_ratio,
                       Rat(8, 10))
         /\ RatLeq(Rat(0, 1), ret.confidence_score)
         /\ RatLeq(ret.confidence_score, Rat(1, 1))

\* the confidence of a database with fuzzy and other samples
C15_Witness ==
  /\ last.op = "hypothesis"
  /\ Cardinality(DOMAIN arg) >= 3
  /\ RatLess(Rat(0, 1), FuzzyShare(arg))
  /\ RatLess(FuzzyShare(arg), Rat(1, 1))
  /\ RatLess(Rat(0, 1), ret.confidence_score)

\* the number of records of a result list labelled m
LabelCount(r, m) == Len(SelectSeq(r, LAMBDA x : x.matched = m))

\* C16: detect_matching_algorithm returns "fuzzy" for a list with strictly
\* more fuzzy than exact records, "exact" when the exact count is positive
\* and not exceeded, otherwise "unknown"; determine_algorithm_type returns
\* "fuzzy_search" when fuzzy_match_ratio > 0.8, else "exact_match" when
\* exact_match_ratio > 0.9, else "hybrid", hence "fuzzy_search" over samples
\* that all come from lists with more fuzzy than exact records
C16_MatchingLabels ==
  /\ last.op = "detect" =>
       ret = IF LabelCount(arg, "fuzzy") > LabelCount(arg, "exact") THEN "fuzzy"
             ELSE IF LabelCount(arg, "exact") > 0 THEN "exact"
             ELSE "unknown"
  /\ last.op = "hypothesis" =>
       /\ \A q \in DOMAIN arg :
            arg[q].characteristics.matching_type =
              IF arg[q].results = <<>> THEN "unknown"
              ELSE IF LabelCount(arg[q].results, "fuzzy") > LabelCount(arg[q].results, "exact")
              THEN "fuzzy"
              ELSE IF LabelCount(arg[q].results, "exact") > 0 THEN "exact"
              ELSE "unknown"
       /\ ret.likely_algorithm =
            IF RatLess(Rat(8, 10), ret.observed_patterns.fuzzy_match_ratio)
            THEN "fuzzy_search"
            ELSE IF RatLess(Rat(9, 10), ret.observed_patterns.exact_match_ratio)
            THEN "exact_match"
            ELSE "hybrid"
       /\ (/\ DOMAIN arg # {}
           /\ \A q \in DOMAIN arg :
                LabelCount(arg[q].results, "fuzzy") > LabelCount(arg[q].results, "exact"))
            => ret.likely_algorithm = "fuzzy_search"

\* six samples, each from the list with 9 fuzzy records of 10
C16_Witness ==
  /\ last.op = "hypothesis"
  /\ Cardinality(DOMAIN arg) = 6
  /\ \A q \in DOMAIN arg : LabelCount(arg[q].results, "fuzzy") = 9
  /\ \A q \in DOMAIN arg : Len(arg[q].results) = 10
  /\ ret.likely_algorithm = "fuzzy_search"

\* C17: in the optimization phase generate_next_queries returns up to 2
\* entries of type optimized for distinct domains of successful_domains (of
\* the catalog when that set is empty), each built with a pattern of
\* successful_patterns (of the catalog when that list is empty); every
\* identifier in successful_patterns is a key of the pattern catalog, so the
\* lookup succeeds
C17_OptimizedQueriesFromLearnedPatterns ==
  /\ \A i \in DOMAIN strategy.learned_patterns.successful_patterns :
       strategy.learned_patterns.successful_patterns[i] \in PatternSet
  /\ (last.op = "generate" /\ last.generator = "optimization") =>
       /\ ~last.raised
       /\ Len(queries) \in 1..2
       /\ \A i \in DOMAIN queries :
            /\ queries[i].type = "optimized"
            /\ queries[i].domain \in
                 OrAllDomains(strategy.learned_patterns.successful_domains)
       /\ \A i, j \in DOMAIN queries : i # j => queries[i].domain # queries[j].domain

\* the weight analyze_response leaves for a domain whose weight was w
WeightAfter(w, success) ==
  IF success
  THEN IF RatLess(WeightCap, RatMul(w, 6, 5)) THEN WeightCap ELSE RatMul(w, 6, 5)
  ELSE IF RatLess(RatMul(w, 4, 5), WeightFloor) THEN WeightFloor ELSE RatMul(w, 4, 5)

\* C18: an analyze_response(query, results) call changes the weight of
\* exactly one domain, the one _identify_domain(query) returns, from w to
\* min(2.0, 1.2 w) for a non-empty result list and to max(0.1, 0.8 w) for an
\* empty one; all other weights are unchanged
C18_OneWeightUpdated ==
  [][(last'.op = "analyze" /\ arg' # <<>>) =>
       /\ IdentifyDomain(arg'[1]) \in DomainSet
       /\ strategy'.domain_weights =
            [strategy.domain_weights EXCEPT
               ![IdentifyDomain(arg'[1])] = WeightAfter(@, arg'[2] # <<>>)]
    ]_vars

\* C19: the strategy state is partitioned by writer: generate_next_queries
\* changes only the phase and the round counter and leaves the domain
\* weights, the learned patterns and the success rates unchanged;
\* analyze_response changes only weights, learned patterns and success rates
\* and leaves the phase and the round counter unchanged
C19_StatePartitionedByWriter ==
  [][/\ last'.op = "generate" =>
          /\ strategy'.domain_weights = strategy.domain_weights
          /\ strategy'.learned_patterns = strategy.learned_patterns
          /\ strategy'.query_success_rates = strategy.query_success_rates
     /\ last'.op = "analyze" =>
          /\ strategy'.current_phase = strategy.current_phase
          /\ strategy'.exploration_rounds = strategy.exploration_rounds
    ]_vars

\* both writers have acted: a generate call has just returned in a later
\* phase while the learned patterns and a weight differ from their initial
\* values
C19_Witness ==
  /\ last.op = "generate"
  /\ ~last.raised
  /\ calls.analyze > 0
  /\ strategy.current_phase # "domain_exploration"
  /\ strategy.exploration_rounds > 0
  /\ strategy.learned_patterns.successful_patterns # <<>>
  /\ \E d \in DomainSet : strategy.domain_weights[d] # InitStrategy.domain_weights[d]

\* C20: an analyze_response call with an empty result list leaves
\* effective_terms, optimal_query_length, successful_domains,
\* successful_patterns, best_performing_categories and every success count
\* unchanged; it adds the query's alphanumeric terms other than and/or/not to
\* ineffective_terms (net of effective_terms), increments the total of the
\* query's category and lowers the weight of one domain
C20_FailureFrame ==
  [][(last'.op = "analyze" /\ arg' # <<>> /\ arg'[2] = <<>>) =>
       /\ strategy'.learned_patterns =
            [strategy.learned_patterns EXCEPT
               !.ineffective_terms =
                 (@ \cup {t \in TermSet(arg'[1]) :
                            /\ \A i \in DOMAIN t : t[i] \notin {QT, BANG}
                            /\ Lower(t) \notin {W("and"), W("or"), W("not")}})
                   \ strategy.learned_patterns.effective_terms]
       /\ strategy'.query_success_rates =
            [strategy.query_success_rates EXCEPT
               ![CategorizeQuery(arg'[1])].total = @ + 1]
       /\ IdentifyDomain(arg'[1]) \in DomainSet
       /\ strategy'.domain_weights =
            [strategy.domain_weights EXCEPT
               ![IdentifyDomain(arg'[1])] = WeightAfter(@, FALSE)]
    ]_vars

\* C21: in domain_exploration, whatever the domain weights in [0.1, 2.0] are
\* (all at 0.1 included), generate_next_queries returns exactly 3 entries of
\* type domain_exploration, for pairwise distinct catalog domains, each query
\* a seed term of the entry's domain
C21_ExplorationReturnsThreeDomains ==
  (last.op = "generate" /\ last.generator = "domain_exploration") =>
    /\ ~last.raised
    /\ Len(queries) = 3
    /\ \A i \in DOMAIN queries :
         /\ queries[i].type = "domain_exploration"
         /\ queries[i].domain \in DomainSet
         /\ queries[i].query \in Range(domains[queries[i].domain])
    /\ \A i, j \in DOMAIN queries : i # j => queries[i].domain # queries[j].domain

\* a call with every weight at the floor has returned, and the domain sorted
\* first was not accepted
C21_Witness ==
  /\ last.op = "generate"
  /\ last.generator = "domain_exploration"
  /\ \A d \in DomainSet : strategy.domain_weights[d] = WeightFloor
  /\ Len(queries) = 3
  /\ \A i \in DOMAIN queries : queries[i].domain # DomainNames[1]

\* the sum of the totals of a success-rate table
SumTotals(rates) ==
  rates.exact.total + rates.partial.total + rates.fuzzy.total
    + rates.compound.total + rates.general.total

\* C22: the success-rate table is monotone and consistent: an
\* analyze_response call adds 1 to the total of exactly one category, the one
\* _categorize_query returns, and 1 to its success count iff the result list
\* is non-empty; no count ever decreases; success <= total for every
\* category; the totals add up to the number of analyze_response calls made
C22_SuccessRatesConsistent ==
  /\ [](/\ \A c \in Categories :
             strategy.query_success_rates[c].success <= strategy.query_success_rates[c].total
        /\ SumTotals(strategy.query_success_rates) = calls.analyze)
  /\ [][/\ \A c \in Categories :
             /\ strategy'.query_success_rates[c].total >= strategy.query_success_rates[c].total
             /\ strategy'.query_success_rates[c].success >= strategy.query_success_rates[c].success
        /\ (last'.op = "analyze" /\ arg' # <<>>) =>
             strategy'.query_success_rates =
               [strategy.query_success_rates EXCEPT
                  ![CategorizeQuery(arg'[1])] =
                    [success |-> @.success + (IF arg'[2] # <<>> THEN 1 ELSE 0),
                     total |-> @.total + 1]]
       ]_vars

\* two calls were made, the last one ended in KeyError, two categories were
\* counted and one of them has a failure
C22_Witness ==
  /\ last.op = "analyze"
  /\ last.raised
  /\ calls.analyze >= 2
  /\ Cardinality({c \in Categories : strategy.query_success_rates[c].total > 0}) >= 2
  /\ \E c \in Categories :
       strategy.query_success_rates[c].success < strategy.query_success_rates[c].total

\* C23: a category is in best_performing_categories iff its success count
\* is greater than 0; the list has no duplicates and is append-only: no
\* element is ever removed or moved
C23_BestCategoriesAreTheSuccessfulOnes ==
  /\ [](LET best == strategy.learned_patterns.best_performing_categories IN
        /\ \A c \in Categories :
             c \in Range(best) <=> strategy.query_success_rates[c].success > 0
        /\ \A i, j \in DOMAIN best : i # j => best[i] # best[j])
  /\ [][LET old == strategy.learned_patterns.best_performing_categories
            new == strategy'.learned_patterns.best_performing_categories
        IN /\ Len(old) <= Len(new)
           /\ SubSeq(new, 1, Len(old)) = old
       ]_vars

\* a category that succeeded twice is listed once
C23_Witness ==
  \E c \in Categories :
    /\ strategy.query_success_rates[c].success >= 2
    /\ strategy.learned_patterns.best_performing_categories = <<c>>

\* the samples of db whose matching_type is m, over all samples
TypeShare(db, m) ==
  Rat(Cardinality({q \in DOMAIN db : db[q].characteristics.matching_type = m}),
      Cardinality(DOMAIN db))

\* C24: fuzzy_match_ratio is the fraction of the stored samples whose
\* matching_type is "fuzzy" and exact_match_ratio the fraction whose
\* matching_type is "exact"; samples of matching type "unknown" count toward
\* neither, so determine_algorithm_type returns "exact_match" only when more
\* than 90% of the samples are of matching type exact
C24_RatiosCountTheirOwnType ==
  (last.op = "hypothesis" /\ DOMAIN arg # {}) =>
    /\ ret.observed_patterns.fuzzy_match_ratio = TypeShare(arg, "fuzzy")
    /\ ret.observed_patterns.exact_match_ratio = TypeShare(arg, "exact")
    /\ ret.likely_algorithm = "exact_match" => RatLess(Rat(9, 10), TypeShare(arg, "exact"))

\* C25: during run_test_suite every entry generate_next_queries returned is
\* executed by exactly one perform_search call, never retried, and its result
\* goes first to collect_sample and then to analyze_response, once each,
\* before the next request: between two entries the three call counts are
\* equal, within one they run ahead by one in this order, and when the run
\* has ended there were as many requests as entries returned
C25_EachEntrySearchedCollectedAnalyzedOnce ==
  /\ pc = "collect" => calls.search = calls.collect + 1 /\ calls.collect = calls.analyze
  /\ pc = "analyze" => calls.search = calls.collect /\ calls.collect = calls.analyze + 1
  /\ pc \notin {"collect", "analyze"} =>
       calls.search = calls.collect /\ calls.collect = calls.analyze
  /\ calls.search <= calls.entries
  /\ Len(sample_log) = calls.collect
  /\ pc \in {"done", "crashed"} => calls.search = calls.entries

\* C26: for every query generate_next_queries can return in any phase (a
\* catalog pattern applied to a seed term of a catalog domain) and every
\* result list, empty or not, analyze_response returns without raising and
\* changes the weight of exactly one catalog domain
C26_GeneratedQueriesAreAnalyzable ==
  [][(last'.op = "analyze" /\ arg' # <<>>) =>
       /\ ~last'.raised
       /\ Cardinality({d \in DomainSet :
                         strategy'.domain_weights[d] # strategy.domain_weights[d]}) = 1
    ]_vars

\* C27: for every entry returned in domain_exploration, the domain whose
\* weight and whose membership in successful_domains
\* analyze_response(entry.query, results) updates is the entry's domain
C27_ProbedDomainIsCredited ==
  [][(last'.op = "analyze" /\ arg' # <<>> /\ arg'[3].type = "domain_exploration") =>
       /\ strategy'.domain_weights =
            [strategy.domain_weights EXCEPT
               ![arg'[3].domain] = WeightAfter(@, arg'[2] # <<>>)]
       /\ strategy'.learned_patterns.successful_domains =
            strategy.learned_patterns.successful_domains
              \cup (IF arg'[2] # <<>> THEN {arg'[3].domain} ELSE {})
    ]_vars

\* C28: for every non-empty sample database the two ratios analyze_patterns
\* returns add up to 1, so the confidence_score of calculate_confidence and
\* generate_hypothesis is 1.8 / 3 = 0.6 whatever the samples contain
C28_ConfidenceIsConstant ==
  (last.op = "hypothesis" /\ DOMAIN arg # {}) =>
    LET fuzzy == ret.observed_patterns.fuzzy_match_ratio
        exact == ret.observed_patterns.exact_match_ratio
    IN /\ fuzzy.n * exact.d + exact.n * fuzzy.d = fuzzy.d * exact.d
       /\ ret.confidence_score = Rat(6, 10)
       /\ calculate_confidence(arg) = Rat(6, 10)

\* the hypothesis over samples of matching type fuzzy, exact and unknown
C28_Witness ==
  /\ last.op = "hypothesis"
  /\ \A m \in {"fuzzy", "exact", "unknown"} :
       \E q \in DOMAIN arg : arg[q].characteristics.matching_type = m
  /\ ret.confidence_score = Rat(6, 10)

====
